---- MODULE Spec2Model ----
(***************************************************************************)
(* Model of src/src/app.py: a Streamlit script that answers questions on   *)
(* a MySQL database through two LangChain chains.                          *)
(*                                                                         *)
(* The script is rerun from top to bottom on every front-end event         *)
(* (page load, Connect click, chat submission).  st.session_state persists *)
(* between runs.  One script run is in progress at a time.  A run that     *)
(* reaches get_response is a "cycle"; its blocking calls (database, LLM)   *)
(* are separate steps so that what is in flight is visible in the state.   *)
(*                                                                         *)
(* LangChain semantics used by the chain of get_response:                  *)
(*   RunnablePassthrough.assign(k1=f1, k2=f2) evaluates f1 and f2 on the   *)
(*   same input through a thread pool (RunnableParallel): the steps are    *)
(*   submitted together, run concurrently, and the assign returns when     *)
(*   all have finished; an exception of a step is re-raised after that.    *)
(*   StrOutputParser returns the text content of the LLM message.          *)
(*   SQLDatabase.run raises on a failing statement.                        *)
(***************************************************************************)
EXTENDS Naturals, Sequences, FiniteSets

\* ---------------------------------------------------------------- bounds
MaxQLen == 1
MaxTurns == 5

\* ------------------------------------------------------------ value sets
Chars == {" ", "q"}
None == "None"
Schemas == {"s1", "s2"}
InitSchema == "s1"
Queries == {"", "SELECT"}
Rows == "rows"
Greeting == <<"H">>
Answers == {<<"a">>}
TaskNames == {"schema", "response"}
OpNames == {"get_schema", "sql_llm", "schema", "response", "answer_llm"}

RECURSIVE SeqsUpTo(_)
SeqsUpTo(n) ==
    IF n = 0 THEN {<<>>}
    ELSE LET S == SeqsUpTo(n - 1)
         IN  S \cup {Append(s, c) : s \in {t \in S : Len(t) = n - 1}, c \in Chars}

UserInputs == SeqsUpTo(MaxQLen)

VARIABLES
    has_chat_history,   \* "chat_history" in st.session_state
    chat_history,       \* st.session_state.chat_history
    db,                 \* st.session_state.db, None while the key is absent
    dbSchema,           \* the live schema of the database server
    pc,                 \* position of the script run in progress
    user_query,         \* the question of the latest cycle, <<>> before the first
    sql_schema,         \* "schema" key assigned inside sql_chain
    sql_prompt,         \* inputs formatted into the SQL prompt, <<>> or <<rec>>
    query,              \* "query" key: parsed output of sql_chain
    task,               \* state of the two steps of the second assign
    schema,             \* "schema" key of the second assign
    response,           \* "response" key of the second assign
    run_arg,            \* the argument db.run was called with
    answer_prompt,      \* inputs formatted into the answer prompt, <<>> or <<rec>>
    calls,              \* number of invocations of each operation in the latest cycle
    outcome,            \* "none", "running", "ok" or "failed" for the latest cycle
    error,              \* the exception that ended the latest cycle, or None
    hist0,              \* chat_history as it was when the latest question arrived
    changed,            \* the live schema changed since the latest cycle began
    last_schema         \* the schema the previous cycle's SQL prompt received

vars == <<has_chat_history, chat_history, db, dbSchema, pc, user_query,
          sql_schema, sql_prompt, query, task, schema, response, run_arg,
          answer_prompt, calls, outcome, error, hist0, changed, last_schema>>

session == <<has_chat_history, chat_history, db>>
cycle == <<user_query, sql_schema, sql_prompt, query, task, schema, response,
           run_arg, answer_prompt, calls, outcome, error, hist0, changed,
           last_schema>>

\* -------------------------------------------------------------- helpers
AIMessage(content) == [type |-> "ai", content |-> content]

HumanMessage(content) == [type |-> "human", content |-> content]

\* str.strip(): drop leading and trailing whitespace
RECURSIVE LStrip(_)
LStrip(s) == IF s # <<>> /\ Head(s) = " " THEN LStrip(Tail(s)) ELSE s

RECURSIVE RStrip(_)
RStrip(s) ==
    IF s # <<>> /\ s[Len(s)] = " " THEN RStrip(SubSeq(s, 1, Len(s) - 1)) ELSE s

Strip(s) == RStrip(LStrip(s))

\* lines 128-131: the greeting is stored only when the key is absent
SeedReset(has, h) == <<AIMessage(Greeting)>>

Seeded(has, h) == IF ~has THEN <<AIMessage(Greeting)>> ELSE h

\* line 172: the condition under which a submission starts a cycle
IsQuestion(q) == Strip(q) # <<>>

\* line 173: the question is stored as a HumanMessage at submission
OnSubmitNoAppend(h, q) == h

OnSubmit(h, q) == Append(h, HumanMessage(q))

\* line 180: st.session_state.db raises AttributeError while the key is absent
HasDbAlways(d) == TRUE

HasDb(d) == d # None

\* db.get_table_info(): the schema of the live database at the time of the call
get_table_info_stale(live) == InitSchema

get_table_info(live) == live

\* StrOutputParser: the text of the LLM message, unchanged
StrOutputParser(text) == text

\* lines 46-60: the fields substituted into the SQL prompt
SqlPrompt(s, h, q) == [schema |-> s, chat_history |-> h, question |-> q]

\* lines 97-102: the fields substituted into the answer prompt
AnswerPrompt(s, h, sql, q, r) ==
    [schema |-> s, chat_history |-> h, query |-> sql, question |-> q,
     response |-> r]

NoCalls == [o \in OpNames |-> 0]

NoTasks == [t \in TaskNames |-> "unsubmitted"]

Bump(c, o) == [c EXCEPT ![o] = @ + 1]

\* database operations in flight
DbInFlight ==
    (IF pc = "get_schema" THEN {"get_schema"} ELSE {})
        \cup {t \in TaskNames : task[t] = "running"}

\* generation calls in flight
LlmInFlight == IF pc \in {"sql_llm", "answer_llm"} THEN {pc} ELSE {}

\* ----------------------------------------------------------------- Init
Init ==
    /\ has_chat_history = FALSE
    /\ chat_history = <<>>
    /\ db = None
    /\ dbSchema = InitSchema
    /\ pc = "idle"
    /\ user_query = <<>>
    /\ sql_schema = None
    /\ sql_prompt = <<>>
    /\ query = None
    /\ task = NoTasks
    /\ schema = None
    /\ response = None
    /\ run_arg = None
    /\ answer_prompt = <<>>
    /\ calls = NoCalls
    /\ outcome = "none"
    /\ error = None
    /\ hist0 = <<>>
    /\ changed = FALSE
    /\ last_schema = None

\* An uncaught exception ends the script run; nothing is rolled back.
Raise(e) ==
    /\ pc' = "idle"
    /\ outcome' = "failed"
    /\ error' = e

\* ------------------------------------------------------ front-end events
\* A run with no button pressed and no chat input (page load, widget edit).
Rerender ==
    /\ pc = "idle"
    /\ has_chat_history' = TRUE
    /\ chat_history' = Seeded(has_chat_history, chat_history)
    /\ UNCHANGED <<db, dbSchema, pc, cycle>>

\* lines 149-159: a run with the Connect button pressed.
Connect(ok) ==
    /\ pc = "idle"
    /\ has_chat_history
    /\ has_chat_history' = TRUE
    /\ chat_history' = Seeded(has_chat_history, chat_history)
    /\ db' = IF ok THEN "db" ELSE db
    /\ UNCHANGED <<dbSchema, pc, cycle>>

\* lines 171-180: a run with text in the chat input.
Submit(q) ==
    /\ pc = "idle"
    /\ has_chat_history
    /\ Len(chat_history) + 2 <= MaxTurns
    /\ has_chat_history' = TRUE
    /\ IF ~IsQuestion(q)
       THEN /\ chat_history' = Seeded(has_chat_history, chat_history)
            /\ UNCHANGED <<db, dbSchema, pc, cycle>>
       ELSE /\ hist0' = Seeded(has_chat_history, chat_history)
            /\ chat_history' = OnSubmit(hist0', q)
            /\ user_query' = q
            /\ sql_schema' = None
            /\ sql_prompt' = <<>>
            /\ query' = None
            /\ task' = NoTasks
            /\ schema' = None
            /\ response' = None
            /\ run_arg' = None
            /\ answer_prompt' = <<>>
            /\ changed' = FALSE
            /\ last_schema' = IF sql_prompt # <<>> THEN sql_prompt[1].schema
                              ELSE last_schema
            /\ IF HasDb(db)
               THEN /\ pc' = "get_schema"
                    /\ calls' = Bump(NoCalls, "get_schema")
                    /\ outcome' = "running"
                    /\ error' = None
               ELSE /\ calls' = NoCalls
                    /\ Raise("AttributeError")
            /\ UNCHANGED <<db, dbSchema>>

\* Another client of the database server alters a table.
SchemaChange ==
    /\ \E s \in Schemas \ {dbSchema} : dbSchema' = s
    /\ changed' = (changed \/ pc # "idle")
    /\ UNCHANGED <<session, pc, user_query, sql_schema, sql_prompt, query,
                   task, schema, response, run_arg, answer_prompt, calls,
                   outcome, error, hist0, last_schema>>

\* ------------------------------------------------- steps of get_response
\* lines 69-73: get_schema returns inside sql_chain; the SQL prompt is
\* formatted and the LLM call of line 74 starts.
ReturnGetSchema(ok) ==
    /\ pc = "get_schema"
    /\ IF ok
       THEN /\ sql_schema' = get_table_info(dbSchema)
            /\ sql_prompt' = <<SqlPrompt(sql_schema', chat_history, user_query)>>
            /\ calls' = Bump(calls, "sql_llm")
            /\ pc' = "sql_llm"
            /\ UNCHANGED <<outcome, error>>
       ELSE /\ Raise("ConnectionError")
            /\ UNCHANGED <<sql_schema, sql_prompt, calls>>
    /\ UNCHANGED <<session, dbSchema, user_query, query, task, schema,
                   response, run_arg, answer_prompt, hist0, changed,
                   last_schema>>

\* lines 74-75 and 111: the LLM call of sql_chain returns; its text becomes
\* the "query" key and the two steps of the second assign are submitted.
ReturnSqlLlmSwallow(out, ok) ==
    /\ pc = "sql_llm"
    /\ query' = IF ok THEN StrOutputParser(out) ELSE ""
    /\ task' = [t \in TaskNames |-> "pending"]
    /\ pc' = "parallel"
    /\ error' = IF ok THEN error ELSE "GenerationFailure"
    /\ UNCHANGED <<session, dbSchema, user_query, sql_schema, sql_prompt,
                   schema, response, run_arg, answer_prompt, calls, outcome,
                   hist0, changed, last_schema>>

ReturnSqlLlm(out, ok) ==
    /\ pc = "sql_llm"
    /\ IF ok
       THEN /\ query' = StrOutputParser(out)
            /\ task' = [t \in TaskNames |-> "pending"]
            /\ pc' = "parallel"
            /\ UNCHANGED <<outcome, error>>
       ELSE /\ Raise("GenerationFailure")
            /\ UNCHANGED <<query, task>>
    /\ UNCHANGED <<session, dbSchema, user_query, sql_schema, sql_prompt,
                   schema, response, run_arg, answer_prompt, calls, hist0,
                   changed, last_schema>>

\* when a step of the second assign may begin
CanStartEarly(t) ==
    \/ pc = "parallel" /\ task[t] = "pending"
    \/ pc = "get_schema" /\ t = "schema" /\ task[t] = "unsubmitted"

CanStart(t) == pc = "parallel" /\ task[t] = "pending"

\* lines 112-113: a pool thread begins a step of the second assign.
StartTask(t) ==
    /\ CanStart(t)
    /\ task' = [task EXCEPT ![t] = "running"]
    /\ calls' = Bump(calls, t)
    /\ run_arg' = IF t = "response" THEN query ELSE run_arg
    /\ UNCHANGED <<session, dbSchema, pc, user_query, sql_schema, sql_prompt,
                   query, schema, response, answer_prompt, outcome, error,
                   hist0, changed, last_schema>>

\* lines 112-113: a step of the second assign returns or raises.
FinishTask(t, ok) ==
    /\ task[t] = "running"
    /\ task' = [task EXCEPT ![t] = IF ok THEN "done" ELSE "failed"]
    /\ schema' = IF t = "schema" /\ ok THEN get_table_info(dbSchema) ELSE schema
    /\ response' = IF t = "response" /\ ok THEN Rows ELSE response
    /\ UNCHANGED <<session, dbSchema, pc, user_query, sql_schema, sql_prompt,
                   query, run_arg, answer_prompt, calls, outcome, error,
                   hist0, changed, last_schema>>

\* the second assign returns when every step has finished
SchemaTaskFinished == task["schema"] \in {"done", "failed"}

AllTasksFinished == \A t \in TaskNames : task[t] \in {"done", "failed"}

\* lines 111-116: the second assign returns; the results are collected in
\* key order, so the exception of the schema step is the one raised when
\* both failed.  Otherwise the answer prompt is formatted and the LLM call
\* of line 116 starts.
Join ==
    /\ pc = "parallel"
    /\ AllTasksFinished
    /\ IF task["schema"] = "failed"
       THEN /\ Raise("ConnectionError")
            /\ UNCHANGED <<answer_prompt, calls>>
       ELSE IF task["response"] = "failed"
       THEN /\ Raise("ExecutionError")
            /\ UNCHANGED <<answer_prompt, calls>>
       ELSE /\ answer_prompt' = <<AnswerPrompt(schema, chat_history, query,
                                               user_query, response)>>
            /\ calls' = Bump(calls, "answer_llm")
            /\ pc' = "answer_llm"
            /\ UNCHANGED <<outcome, error>>
    /\ UNCHANGED <<session, dbSchema, user_query, sql_schema, sql_prompt,
                   query, task, schema, response, run_arg, hist0, changed,
                   last_schema>>

\* lines 116-123 and 181-183: the LLM call of the answer chain returns;
\* get_response returns its text and the AIMessage is stored.
ReturnAnswerLlm(ans, ok) ==
    /\ pc = "answer_llm"
    /\ IF ok
       THEN /\ chat_history' = Append(chat_history, AIMessage(StrOutputParser(ans)))
            /\ pc' = "idle"
            /\ outcome' = "ok"
            /\ UNCHANGED error
       ELSE /\ Raise("GenerationFailure")
            /\ UNCHANGED chat_history
    /\ UNCHANGED <<has_chat_history, db, dbSchema, user_query, sql_schema,
                   sql_prompt, query, task, schema, response, run_arg,
                   answer_prompt, calls, hist0, changed, last_schema>>

Next ==
    \/ Rerender
    \/ \E ok \in BOOLEAN : Connect(ok)
    \/ \E q \in UserInputs : Submit(q)
    \/ SchemaChange
    \/ \E ok \in BOOLEAN : ReturnGetSchema(ok)
    \/ \E out \in Queries, ok \in BOOLEAN : ReturnSqlLlm(out, ok)
    \/ \E t \in TaskNames : StartTask(t)
    \/ \E t \in TaskNames, ok \in BOOLEAN : FinishTask(t, ok)
    \/ Join
    \/ \E ans \in Answers, ok \in BOOLEAN : ReturnAnswerLlm(ans, ok)

Spec == Init /\ [][Next]_vars

\* ---------------------------------------------------------------- claims
IsPrefix(s, t) == Len(s) <= Len(t) /\ SubSeq(t, 1, Len(s)) = s

InCycle == pc # "idle"

WithQuestion == Append(hist0, HumanMessage(user_query))

\* C1: a cycle that succeeds lengthens the history by exactly two turns
\* (User, then Assistant) and a cycle that fails at any step leaves the
\* history as long as it was before the question was submitted.
C1_AtomicHistory ==
    /\ (pc = "idle" /\ outcome = "ok") =>
          /\ Len(chat_history) = Len(hist0) + 2
          /\ chat_history[Len(hist0) + 1].type = "human"
          /\ chat_history[Len(hist0) + 2].type = "ai"
    /\ (pc = "idle" /\ outcome = "failed") =>
          Len(chat_history) = Len(hist0)

\* C2: when db.run fails on the generated SQL the cycle still completes:
\* the answer LLM is invoked and the history grows by two.
C2_ExecErrorFolded ==
    (pc = "idle" /\ task["response"] = "failed" /\ task["schema"] = "done") =>
        /\ outcome = "ok"
        /\ calls["answer_llm"] = 1
        /\ Len(chat_history) = Len(hist0) + 2

C5_Order ==
    /\ calls["sql_llm"] >= 1 =>
          /\ calls["get_schema"] >= 1
          /\ pc # "get_schema"
          /\ sql_schema # None
          /\ sql_prompt[1].schema = sql_schema
          /\ sql_prompt[1].question = user_query
    /\ calls["response"] >= 1 =>
          /\ pc \notin {"get_schema", "sql_llm"}
          /\ query # None
          /\ run_arg = query
    /\ calls["answer_llm"] >= 1 =>
          /\ task["response"] = "done"
          /\ response # None
          /\ answer_prompt[1].query = run_arg
          /\ answer_prompt[1].response = response
          /\ answer_prompt[1].question = user_query
    /\ outcome = "ok" => \A o \in OpNames : calls[o] = 1

C5_Witness ==
    /\ pc = "answer_llm"
    /\ answer_prompt[1].query = "SELECT"
    /\ answer_prompt[1].response = Rows

C7_NoConnectionNoGeneration ==
    db = None =>
        /\ pc = "idle"
        /\ calls = NoCalls
        /\ sql_prompt = <<>>
        /\ answer_prompt = <<>>
        /\ user_query # <<>> => (outcome = "failed" /\ error = "AttributeError")

C7_Witness ==
    /\ db = None
    /\ user_query # <<>>
    /\ error = "AttributeError"

\* C8: an empty text from the SQL LLM aborts the cycle: db.run is never
\* invoked with an empty query and the answer LLM is not invoked.
C8_EmptyQueryRejected ==
    query = "" =>
        /\ calls["response"] = 0
        /\ calls["answer_llm"] = 0
        /\ run_arg # ""

C10_AppendOnly ==
    [][/\ (~has_chat_history /\ has_chat_history') =>
              chat_history' = <<AIMessage(Greeting)>>
       /\ has_chat_history =>
              /\ has_chat_history'
              /\ Len(chat_history) >= 1
              /\ IsPrefix(chat_history, chat_history')]_vars

C10_Witness ==
    /\ pc = "idle"
    /\ outcome = "ok"
    /\ Len(hist0) >= 3
    /\ chat_history[1] = AIMessage(Greeting)
    /\ \E i \in 2..Len(hist0) : hist0[i].type = "human"
====
